---- MODULE Spec2Model ----
(***************************************************************************)
(* A model of stockmath's app.py: one Streamlit script run.  The run reads *)
(* the sidebar, fetches the ticker's info mapping, extracts the metrics,   *)
(* renders the header and the assumption inputs and, when the button was   *)
(* pressed, projects the three scenarios and renders the table and the     *)
(* chart.  Any exception ends the run in the except handler.               *)
(*                                                                         *)
(* Python values are records [k, n, d, r, bn, bd, f]:                      *)
(*   k = "int"     the int n                                               *)
(*   k = "num"     the float that is n/d (d > 0, lowest terms); a zero     *)
(*                 with r = -1 is -0.0                                     *)
(*   k = "apx"     a float next to n/d: the result of an operation whose   *)
(*                 exact value n/d no float holds, or whose operands were  *)
(*                 such floats                                             *)
(*   k = "pow"     a float next to (n/d) * (bn/bd)^r, kept as written      *)
(*                 because the power is larger than the integers evaluated *)
(*   k = "tiny"    what a sum of floats leaves when the numbers they stand *)
(*                 for cancel: a float other than zero with the sign of n  *)
(*                 and a magnitude of at most 2^-NoiseBits times           *)
(*                 |n/d| * |bn/bd|^r                                       *)
(*   k = "inf"     inf (n = 1) and -inf (n = -1);  k = "nan"  nan          *)
(*   k = "none"    None                                                    *)
(*   k = "absent"  a key the info mapping does not hold                    *)
(*   k = "unbound" a local no statement has assigned yet                   *)
(*   k = "root"    the float (n/d)^(1/r) * bn/bd, kept as written because  *)
(*                 no rational root was found for it                       *)
(*   k = "rootm1"  the float (n/d)^(1/r) * bn/bd - 1                       *)
(*   k = "tinyroot", "tinyrootm1"  the r-th root of a positive "tiny"      *)
(*                 value, and that root minus 1                            *)
(*   k = "complex" a complex number (a negative base, a fractional power)  *)
(*   k = "str"     a formatted number: n is the rounded value in units of  *)
(*                 10^-d; n = 0 with r = -1 is "-0", "-0.0" or "-0.00"     *)
(*   k = "strtie"  a formatted number whose exact value lies halfway       *)
(*                 between n and n + 1 units of 10^-d: the text is one of  *)
(*                 the two, as the float's rounding error falls            *)
(*   k = "strpow", "strroot", "strrootm1", "strtiny", "strtinyroot",       *)
(*       "strtinyrootm1", "strcomplex", "strinf", "strnan"                 *)
(*                 the text of such a value, formatted to 1/f              *)
(*   k = an exception name: the evaluation raised it                       *)
(* Of binary floating point the model keeps the conversion of an int to a  *)
(* float, the signed zeros, inf and nan, the range of the floats (overflow *)
(* to inf or OverflowError, underflow to zero), which results are exact,   *)
(* the undecided direction of a decimal tie of an inexact float, and the   *)
(* residue of a cancelling sum of inexact floats: 0.0 or a "tiny" value of *)
(* either sign, as the operands' rounding errors fall.                     *)
(***************************************************************************)
EXTENDS Integers, Sequences, FiniteSets, TLC

VARIABLES pc, ticker, years, info, price, pe, margin, mcap, rev, fcf,
          fcf_yield, fcf_margin, inputs, pressed, idx, loc, results,
          chart_scenarios, chart_prices, chart_colors, figure, rendered,
          exc, raisedAt

vars == <<pc, ticker, years, info, price, pe, margin, mcap, rev, fcf,
          fcf_yield, fcf_margin, inputs, pressed, idx, loc, results,
          chart_scenarios, chart_prices, chart_colors, figure, rendered,
          exc, raisedAt>>

----------------------------------------------------------------------------
(* Values *)

V(kind, num, den, root) ==
    [k |-> kind, n |-> num, d |-> den, r |-> root, bn |-> 1, bd |-> 1, f |-> 0]

\* The float a and the int a.
Num(a) == V("num", a, 1, 1)
PyInt(a) == V("int", a, 1, 1)
None == V("none", 0, 1, 1)
Absent == V("absent", 0, 1, 1)
Unbound == V("unbound", 0, 1, 1)
Complex == V("complex", 0, 1, 1)
Raised(e) == V(e, 0, 1, 1)

\* The floats 0.0 and -0.0, inf and -inf, nan.
Zero(neg) == V("num", 0, 1, IF neg THEN -1 ELSE 1)
Inf(neg) == V("inf", IF neg THEN -1 ELSE 1, 1, 1)
NaN == V("nan", 0, 1, 1)

Exceptions == {"TypeError", "ZeroDivisionError", "ValueError", "OverflowError",
               "NameError"}

\* An int or a float.
IsNum(a) == a.k \in {"int", "num", "apx", "pow", "tiny", "inf", "nan"}
IsErr(a) == a.k \in Exceptions

\* a == 0
IsZero(a) == a.k \in {"int", "num"} /\ a.n = 0
IsInt(a) == a.k = "int"

\* A float whose bits the model knows: the binary fraction n/d.
Exact(a) == a.k = "num"

\* The value is written on base 1: it is n/d.
Base1(a) == a.bn = 1 /\ a.bd = 1

\* The sign bit of a number.
Neg(a) ==
    IF IsZero(a) THEN a.r = -1
    ELSE (a.n < 0) # (a.bn < 0 /\ a.r % 2 = 1)

\* a > 0
Positive(a) ==
    a.k \in {"int", "num", "apx", "pow", "tiny", "inf"} /\ ~IsZero(a) /\ ~Neg(a)

\* a and b stand for the same number: an int and the float of its value,
\* 0.0 and -0.0, a float known up to its rounding and the number it is next
\* to; nan is no number.
Untyped(a) == IF a.k \in {"int", "apx"} THEN [a EXCEPT !.k = "num"] ELSE a
SameNumber(a, b) ==
    /\ IsNum(a) /\ IsNum(b) /\ a.k # "nan"
    /\ (IsZero(a) /\ IsZero(b)) \/ Untyped(a) = Untyped(b)

Abs(a) == IF a < 0 THEN -a ELSE a

RECURSIVE GCD(_, _)
GCD(a, b) == IF b = 0 THEN a ELSE GCD(b, a % b)

\* The number num/den (den # 0) in lowest terms with a positive denominator.
Rat(num, den) ==
    LET g == GCD(Abs(num), Abs(den))
        s == IF den < 0 THEN -1 ELSE 1
    IN V("num", s * (num \div g), s * (den \div g), 1)

\* The first exception among the operands, in evaluation order.
FirstErr(a, b) == IF IsErr(a) THEN a ELSE b

\* One operand is complex and the other a number or complex.
Cx(a, b) ==
    \/ a.k = "complex" /\ (IsNum(b) \/ b.k = "complex")
    \/ IsNum(a) /\ b.k = "complex"

\* What a binary arithmetic operator does before it computes: an exception in
\* an operand propagates, a complex operand makes the result complex, None
\* is rejected. (The code applies no arithmetic to a root but the - 1 of
\* lines 124-126.)
Bad(a, b) == IsErr(a) \/ IsErr(b) \/ ~IsNum(a) \/ ~IsNum(b)
Reject(a, b) ==
    IF IsErr(a) \/ IsErr(b) THEN FirstErr(a, b)
    ELSE IF Cx(a, b) THEN Complex
    ELSE Raised("TypeError")

RatMul(a, b) ==
    LET g1 == GCD(Abs(a.n), b.d)
        g2 == GCD(Abs(b.n), a.d)
    IN Rat((a.n \div g1) * (b.n \div g2), (a.d \div g2) * (b.d \div g1))

RatAdd(a, b) ==
    LET g == GCD(a.d, b.d)
    IN Rat(a.n * (b.d \div g) + b.n * (a.d \div g), (a.d \div g) * b.d)

RatInv(a) == Rat(a.d, a.n)

RECURSIVE IntPow(_, _)
IntPow(b, e) == IF e = 0 THEN 1 ELSE b * IntPow(b, e - 1)

\* m < 2^53: every such integer is a float (m >= 0).
Below53(m) == (m \div 67108864) \div 134217728 = 0

\* How many low bits an integer of more than 53 bits loses as a float.
RECURSIVE Excess(_)
Excess(m) == IF Below53(m) THEN 0 ELSE 1 + Excess(m \div 2)

\* The number of binary digits of m >= 0.
RECURSIVE Bits(_)
Bits(m) == IF m = 0 THEN 0 ELSE 1 + Bits(m \div 2)

\* The magnitude from which a number rounds to no finite float.
OutOfFloat(num, den) ==
    ~Below53(Abs(num) \div den)
    /\ Abs(num) >= (IntPow(2, 1024) - IntPow(2, 970)) * den

\* The magnitude up to which a number other than 0 rounds to the float zero:
\* half the smallest float, 2^-1075.
Underflows(num, den) ==
    num # 0 /\ ~Below53(den \div Abs(num)) /\ Abs(num) * IntPow(2, 1075) <= den

\* float(m) for an int m: the nearest number of 53 significant bits, ties to
\* the even one; OverflowError beyond the floats.
RoundToUnit(m, unit) ==
    IF 2 * (m % unit) > unit \/ (2 * (m % unit) = unit /\ (m \div unit) % 2 = 1)
    THEN (m \div unit + 1) * unit
    ELSE (m \div unit) * unit
FloatOfInt(m) ==
    IF Below53(Abs(m)) THEN Num(m)
    ELSE IF OutOfFloat(m, 1) THEN Raised("OverflowError")
    ELSE IF m < 0 THEN Num(-RoundToUnit(-m, IntPow(2, Excess(-m))))
    ELSE Num(RoundToUnit(m, IntPow(2, Excess(m))))

\* The float an arithmetic operator or a format makes of an operand: an int is
\* converted, a float stays.
ToFloat(a) == IF IsInt(a) THEN FloatOfInt(a.n) ELSE a

\* b^e, or cap + 1 once the product passes cap (b >= 0, cap >= 0).
RECURSIVE PowUpTo(_, _, _)
PowUpTo(b, e, cap) ==
    IF e = 0 THEN 1
    ELSE IF b = 0 THEN 0
    ELSE LET p == PowUpTo(b, e - 1, cap)
         IN IF p > cap THEN cap + 1
            ELSE IF p > cap \div b THEN cap + 1 ELSE p * b

\* A power (bn/bd)^e whose numerator and denominator stay within PowCap is
\* written out as a fraction; a larger one is kept as the value "pow", the
\* number (n/d) * (bn/bd)^r.
PowCap == 7000000
Fits(a, e) ==
    PowUpTo(Abs(a.n), e, PowCap) <= PowCap /\ PowUpTo(a.d, e, PowCap) <= PowCap
Pow(c, base_n, base_d, e) ==
    [k |-> "pow", n |-> c.n, d |-> c.d, r |-> e, bn |-> base_n, bd |-> base_d,
     f |-> 0]
Coef(a) == V("num", a.n, a.d, 1)

\* The number a value on a base stands for, written out.
Eval(a) ==
    IF Base1(a) THEN Coef(a)
    ELSE RatMul(Coef(a), Rat(IntPow(a.bn, a.r), IntPow(a.bd, a.r)))

\* d is a power of two; the odd part of m.
RECURSIVE IsPow2(_)
IsPow2(d) == d = 1 \/ (d % 2 = 0 /\ IsPow2(d \div 2))
RECURSIVE Odd(_)
Odd(m) == IF m # 0 /\ m % 2 = 0 THEN Odd(m \div 2) ELSE m

\* The number x is a float as it is: a binary fraction of at most 53 bits.
Holds(x) == IsPow2(x.d) /\ Below53(Odd(Abs(x.n)))

\* The float nearest the number x, its bits not known.
Apx(x) == [x EXCEPT !.k = "apx"]

\* The result of a float operation, from the number x the model computes for
\* it: inf beyond the floats, a zero of x's sign below them. The result is
\* x itself when the operands were exact and x is a float (the operation
\* rounds correctly), the float nearest x up to rounding otherwise.
Float(x, exact) ==
    IF OutOfFloat(x.n, x.d) THEN Inf(x.n < 0)
    ELSE IF Underflows(x.n, x.d) THEN Zero(x.n < 0)
    ELSE IF exact /\ Holds(x) THEN x
    ELSE Apx(x)

\* The float a provider or a literal gives for the decimal num/den.
Flt(num, den) == Float(Rat(num, den), TRUE)

\* A "pow" value well within the floats: between 2^-1022 and 2^1023.
Safe(p) ==
    /\ Bits(Abs(p.n) \div p.d) + p.r * Bits(Abs(p.bn) \div p.bd) <= 1023
    /\ Bits(p.d \div Abs(p.n)) + p.r * Bits(p.bd \div Abs(p.bn)) <= 1022
PowFloat(p) == IF Safe(p) THEN p ELSE Float(Eval(p), FALSE)

\* The result of a float operation from the number v, which is a fraction or
\* is written on a base.
Rounded(v, exact) == IF v.k = "pow" THEN PowFloat(v) ELSE Float(v, exact)

\* Two values written on one base; a's factor on the base it shares with b;
\* the number c on the base of a.
SamePow(a, b) == a.bn = b.bn /\ a.bd = b.bd /\ (a.r = b.r \/ Base1(a))
Part(a, b) == IF SamePow(a, b) THEN Coef(a) ELSE Eval(a)
Based(c, a) == IF Base1(a) THEN c ELSE Pow(c, a.bn, a.bd, a.r)

\* -a
Minus(a) ==
    IF IsZero(a) THEN Zero(~Neg(a)) ELSE [a EXCEPT !.n = -a.n]

\* The magnitude of a value; its sign as 1 or -1.
AbsV(a) == [a EXCEPT !.n = Abs(@), !.bn = Abs(@)]
Sgn(a) == IF Neg(a) THEN -1 ELSE 1

\* What a sum of floats that cancels leaves. Each operation of lines 27-126
\* rounds its result to 53 bits, and a float the model knows up to rounding
\* differs from its number by less than 2^-NoiseBits of it (the chain of
\* operations behind any value of the script is shorter than 2^5). When two
\* such floats cancel, their sum is that difference: 0.0, or a float of
\* either sign, as the roundings fell. The value "tiny" is such a float: it
\* is not zero, has the sign of n and a magnitude of at most 2^-NoiseBits of
\* |n/d| * (bn/bd)^r, its scale. s chooses among the three.
NoiseBits == 48
Signs == {-1, 0, 1}
Residue(x, s) ==
    IF s = 0 THEN Zero(FALSE)
    ELSE [x EXCEPT !.k = "tiny", !.n = s * Abs(@), !.bn = Abs(@)]

\* How many times the number t is the number y, and whether that is below
\* 2^(NoiseBits / 2): a residue of the scale t then changes the float y by
\* less than 2^-(NoiseBits / 2) of it.
Share(t, y) == RatMul(Coef(AbsV(t)), RatInv(Coef(AbsV(y))))
Outweighs(y, t) == Bits(Share(t, y).n \div Share(t, y).d) <= NoiseBits \div 2

\* The numbers x * y, x / y and x + y of two finite floats other than zero.
Prod(x, y) ==
    IF Base1(x) \/ Base1(y)
    THEN Based(RatMul(Coef(x), Coef(y)), IF Base1(y) THEN x ELSE y)
    ELSE RatMul(Eval(x), Eval(y))
Quot(x, y) ==
    IF Base1(y) \/ SamePow(x, y)
    THEN Based(RatMul(Coef(x), RatInv(Coef(y))), IF Base1(y) THEN x ELSE Num(1))
    ELSE RatMul(Eval(x), RatInv(Eval(y)))
SumOf(x, y) ==
    Based(RatAdd(Part(x, y), Part(y, x)), IF SamePow(x, y) THEN x ELSE Num(1))

\* The float a product or a quotient of the number v is. One of a residue is
\* a residue of the scale v, unless v lies below the floats.
Shape(v, w, tiny) == IF tiny /\ ~IsZero(w) THEN [v EXCEPT !.k = "tiny"] ELSE w
Result(v, tiny, exact) == Shape(v, Rounded(v, exact /\ ~tiny), tiny)

\* x * y for two floats (or what their conversion raised).
FloatMul(x, y) ==
    IF IsErr(x) \/ IsErr(y) THEN FirstErr(x, y)
    ELSE IF x.k = "nan" \/ y.k = "nan" THEN NaN
    ELSE IF x.k = "inf" \/ y.k = "inf"
         THEN IF IsZero(x) \/ IsZero(y) THEN NaN ELSE Inf(Neg(x) # Neg(y))
    ELSE IF IsZero(x) \/ IsZero(y) THEN Zero(Neg(x) # Neg(y))
    ELSE Result(Prod(x, y), x.k = "tiny" \/ y.k = "tiny", Exact(x) /\ Exact(y))

\* x / y for two floats. (No divisor of the script is a sum: lines 39-40 and
\* 107-126 divide by mcap, rev, 100, t_yld / 100, price, shares and 2. A
\* quotient by a residue is beyond every bound the model keeps and is taken
\* for inf.)
FloatDiv(x, y) ==
    IF IsErr(x) \/ IsErr(y) THEN FirstErr(x, y)
    ELSE IF IsZero(y) THEN Raised("ZeroDivisionError")
    ELSE IF x.k = "nan" \/ y.k = "nan" THEN NaN
    ELSE IF x.k = "inf"
         THEN IF y.k = "inf" THEN NaN ELSE Inf(Neg(x) # Neg(y))
    ELSE IF y.k = "inf" \/ IsZero(x) THEN Zero(Neg(x) # Neg(y))
    ELSE IF y.k = "tiny" THEN Inf(Neg(x) # Neg(y))
    ELSE Result(Quot(x, y), x.k = "tiny", Exact(x) /\ Exact(y))

\* A float known up to rounding: y once a residue was added to it.
Inexact(y) == IF Exact(y) THEN Apx(y) ELSE y

\* The scale of the residue t, 2^(NoiseBits / 2 + 1) times wider.
Wide(t) ==
    IF Base1(t) THEN [AbsV(t) EXCEPT !.bn = 2, !.r = NoiseBits \div 2 + 1]
    ELSE Based(RatMul(Coef(AbsV(t)), Num(IntPow(2, NoiseBits \div 2 + 1))),
               AbsV(t))

\* The float y plus the residue t: y up to rounding when y outweighs t, and
\* else a float of any sign (or 0.0) within the wider scale of t.
Beside(y, t, near, s) == IF near THEN Inexact(y) ELSE Residue(Wide(t), s)

\* x + y with a residue among them. The sum of two residues is a residue on
\* the scales of the two: of their sign when they have one sign, of any sign
\* or 0.0 when not.
TinySum(x, y, px, py, s) ==
    IF x.k = "tiny" /\ y.k = "tiny"
    THEN Residue(SumOf(AbsV(x), AbsV(y)), IF Neg(x) = Neg(y) THEN Sgn(x) ELSE s)
    ELSE IF x.k = "tiny" THEN Beside(y, x, Outweighs(py, px), s)
    ELSE Beside(x, y, Outweighs(px, py), s)

\* x + y for two floats that are no residues, from their sum v: correctly
\* rounded when both are exact (0.0 when they cancel), a residue of the scale
\* of x when they are not and the numbers they stand for cancel.
PlainSum(x, v, exact, s) ==
    IF ~exact /\ v.n = 0 THEN Residue(x, s) ELSE Rounded(v, exact)

\* x + y for two finite floats other than zero; px and py are their factors
\* on the base they share.
Finite(x, y, px, py, s) ==
    IF x.k = "tiny" \/ y.k = "tiny" THEN TinySum(x, y, px, py, s)
    ELSE PlainSum(x, Based(RatAdd(px, py), IF SamePow(x, y) THEN x ELSE Num(1)),
                  Exact(x) /\ Exact(y), s)

\* x + y for two floats: a sum of zeros is -0.0 only when both are.
FloatAdd(x, y, s) ==
    IF IsErr(x) \/ IsErr(y) THEN FirstErr(x, y)
    ELSE IF x.k = "nan" \/ y.k = "nan" THEN NaN
    ELSE IF x.k = "inf"
         THEN IF y.k = "inf" /\ Neg(x) # Neg(y) THEN NaN ELSE x
    ELSE IF y.k = "inf" THEN y
    ELSE IF IsZero(x) /\ IsZero(y) THEN Zero(Neg(x) /\ Neg(y))
    ELSE IF IsZero(x) THEN y
    ELSE IF IsZero(y) THEN x
    ELSE Finite(x, y, Part(x, y), Part(y, x), s)

\* a / b for two ints: the quotient as a float, OverflowError beyond them.
IntDiv(a, b) ==
    IF b.n = 0 THEN Raised("ZeroDivisionError")
    ELSE IF a.n = 0 THEN Zero(b.n < 0)
    ELSE IF OutOfFloat(a.n, Abs(b.n)) THEN Raised("OverflowError")
    ELSE Float(Rat(a.n, b.n), TRUE)

\* Python's a * b, a + b, a - b, a / b. Two ints give an int (a float for /);
\* otherwise both operands are converted to floats. s is the way a sum that
\* cancels falls.
PyMul(a, b) ==
    IF Bad(a, b) THEN Reject(a, b)
    ELSE IF IsInt(a) /\ IsInt(b) THEN PyInt(a.n * b.n)
    ELSE FloatMul(ToFloat(a), ToFloat(b))
PyAdd(a, b, s) ==
    IF Bad(a, b) THEN Reject(a, b)
    ELSE IF IsInt(a) /\ IsInt(b) THEN PyInt(a.n + b.n)
    ELSE FloatAdd(ToFloat(a), ToFloat(b), s)
PySub(a, b, s) ==
    IF IsErr(a) \/ IsErr(b) THEN FirstErr(a, b)
    ELSE IF a.k \in {"root", "tinyroot"} /\ b = PyInt(1)
         THEN [a EXCEPT !.k = a.k \o "m1"]
    ELSE IF Bad(a, b) THEN Reject(a, b)
    ELSE IF IsInt(a) /\ IsInt(b) THEN PyInt(a.n - b.n)
    ELSE FloatAdd(ToFloat(a), Minus(ToFloat(b)), s)
PyDiv(a, b) ==
    IF a.k = "complex" /\ IsZero(b) THEN Raised("ZeroDivisionError")
    ELSE IF Bad(a, b) THEN Reject(a, b)
    ELSE IF IsInt(a) /\ IsInt(b) THEN IntDiv(a, b)
    ELSE FloatDiv(ToFloat(a), ToFloat(b))

\* Python's truth value: None and 0 are false.
Truthy(a) == IsNum(a) /\ ~IsZero(a)

\* a ** e for an int e >= 0. An int a gives an int; a float gives a float,
\* OverflowError when the power leaves the range of the floats, a zero when
\* it falls below them. The power of an exact float that is a float itself
\* is exact.
Ranged(p, exact) ==
    IF OutOfFloat(p.n, p.d) THEN Raised("OverflowError")
    ELSE IF Underflows(p.n, p.d) THEN Zero(p.n < 0)
    ELSE IF exact /\ Holds(p) THEN p
    ELSE Apx(p)
RatPow(x, e) == Rat(IntPow(x.n, e), IntPow(x.d, e))
PowOf(x, e) ==
    IF ~Base1(x) THEN RatPow(Eval(x), e)
    ELSE IF Fits(x, e) THEN RatPow(x, e)
    ELSE Pow(Num(1), x.n, x.d, e)
FloatPow(x, e) ==
    IF IsErr(x) THEN x
    ELSE IF e = 0 THEN Num(1)
    ELSE IF x.k = "nan" THEN NaN
    ELSE IF x.k = "inf" THEN Inf(Neg(x) /\ e % 2 = 1)
    ELSE IF IsZero(x) THEN Zero(Neg(x) /\ e % 2 = 1)
    ELSE IF x.k = "tiny" THEN Result(PowOf(x, e), TRUE, FALSE)
    ELSE IF x.k = "pow" THEN Ranged(RatPow(Eval(x), e), FALSE)
    ELSE IF Fits(x, e) THEN Ranged(RatPow(x, e), Exact(x))
    ELSE IF Safe(Pow(Num(1), x.n, x.d, e)) THEN Pow(Num(1), x.n, x.d, e)
    ELSE Ranged(RatPow(x, e), Exact(x))
PyPowInt(a, e) ==
    IF IsErr(a) THEN a
    ELSE IF ~IsNum(a) THEN Raised("TypeError")
    ELSE IF IsInt(a) THEN PyInt(IntPow(a.n, e))
    ELSE FloatPow(a, e)

\* The integers up to RootSearch whose e-th power is m.
RootSearch == 12
IntRoots(m, e) == {p \in 0..RootSearch : PowUpTo(p, e, m) = m}
HasRoot(a, e) == IntRoots(Abs(a.n), e) # {} /\ IntRoots(a.d, e) # {}
RatRoot(a, e) ==
    Rat(CHOOSE p \in IntRoots(Abs(a.n), e) : TRUE,
        CHOOSE q \in IntRoots(a.d, e) : TRUE)

\* The e-th root of a positive number: of a perfect power its rational root
\* up to rounding (1.0 of the exact 1.0), of another number the value "root",
\* (n/d)^(1/r) * bn/bd.
NumRoot(a, e) ==
    IF a = Num(1) THEN a
    ELSE IF HasRoot(a, e) THEN Apx(RatRoot(a, e))
    ELSE V("root", a.n, a.d, e)
PowRoot(a, e) ==
    IF a.r # e THEN NumRoot(Apx(Eval(a)), e)
    ELSE IF HasRoot(a, e) THEN Apx(RatMul(RatRoot(a, e), Rat(Abs(a.bn), a.bd)))
    ELSE [k |-> "root", n |-> Abs(a.n), d |-> a.d, r |-> e,
          bn |-> Abs(a.bn), bd |-> a.bd, f |-> 0]

\* The e-th root of a positive residue, kept as written: the value
\* "tinyroot" is t^(1/r) * bn/bd for a residue t of scale n/d.
TinyRoot(a, e) ==
    [(IF a.r = e \/ Base1(a) THEN AbsV(a) ELSE Eval(AbsV(a)))
        EXCEPT !.k = "tinyroot", !.r = e]

\* x ** (1/e) for a float x and e >= 2 (1/e is a float that is no integer):
\* a negative base gives a complex number, inf and the zeros give inf and 0.0.
FloatRoot(a, e) ==
    IF IsErr(a) THEN a
    ELSE IF a.k = "nan" THEN NaN
    ELSE IF a.k = "inf" THEN Inf(FALSE)
    ELSE IF IsZero(a) THEN Zero(FALSE)
    ELSE IF Neg(a) THEN Complex
    ELSE IF a.k = "tiny" THEN TinyRoot(a, e)
    ELSE IF a.k = "pow" THEN PowRoot(a, e)
    ELSE NumRoot(a, e)
PyRoot(a, e) ==
    IF IsErr(a) THEN a
    ELSE IF ~IsNum(a) THEN Raised("TypeError")
    ELSE FloatRoot(ToFloat(a), e)

\* format(a, ".<dec>f") with scale = 10^dec: the nearest multiple of 10^-dec.
\* The tie of an exact float goes to the even digit; a float known up to
\* rounding lies on one side of the tie or the other. r = -1 marks the
\* "-0.00" that -0.0 and a negative number that rounds to zero print.
Str(m, neg, dec) == V("str", m, dec, IF m = 0 /\ neg THEN -1 ELSE 1)
Nearest(low, twice, den, neg, dec, exact) ==
    IF twice < den THEN Str(low, neg, dec)
    ELSE IF twice > den THEN Str(low + 1, neg, dec)
    ELSE IF exact THEN Str(IF low % 2 = 0 THEN low ELSE low + 1, neg, dec)
    ELSE V("strtie", low, dec, 1)
Scaled(whole, part, scale, neg, dec, exact) ==
    Nearest(whole * scale + (part.n \div part.d), 2 * (part.n % part.d), part.d,
            neg, dec, exact)

\* A residue prints as a zero of its sign when it is below half a unit of
\* the format.
PowBits(x) == IF Base1(x) THEN 0 ELSE x.r * Bits(Abs(x.bn) \div x.bd)
PrintsZero(x, scale) ==
    Bits(Abs(x.n) \div x.d) + PowBits(x) + Bits(2 * scale) <= NoiseBits

\* The text of a value the model holds as written (a power, a root, a complex
\* number, a residue of a large scale) and of inf and nan: the value with the
\* format's scale.
Sym(x, scale) == [x EXCEPT !.k = "str" \o x.k, !.f = scale]
FmtFloat(x, dec, scale, exact) ==
    IF IsErr(x) THEN x
    ELSE IF x.k \in {"pow", "root", "rootm1", "tinyroot", "tinyrootm1",
                     "complex", "inf", "nan"}
         THEN Sym(x, scale)
    ELSE IF x.k = "tiny"
         THEN IF PrintsZero(x, scale) THEN Str(0, Neg(x), dec) ELSE Sym(x, scale)
    ELSE IF ~IsNum(x) THEN Raised("TypeError")
    ELSE Scaled(x.n \div x.d, RatMul(Rat(x.n % x.d, x.d), Num(scale)), scale,
                Neg(x), dec, exact)
FmtFixed(a, dec, scale) == FmtFloat(ToFloat(a), dec, scale, Exact(ToFloat(a)))

\* f"${a:.2f}" and f"${a:.0f}"
Fmt2f(a) == FmtFixed(a, 2, 100)
Fmt0f(a) == FmtFixed(a, 0, 1)
\* f"{a:.1f}"
Fmt1f(a) == FmtFixed(a, 1, 10)

\* f"{a:.2%}": the float a * 100 with two decimals; complex has no "%"
\* format code.
Times100(x) == Exact(x) /\ Holds(RatMul(Coef(x), Num(100)))
FmtPct(a) ==
    IF IsErr(a) THEN a
    ELSE IF a.k = "complex" THEN Raised("ValueError")
    ELSE FmtFloat(ToFloat(a), 2, 10000, Times100(ToFloat(a)))

----------------------------------------------------------------------------
(* The info mapping and the extraction of the metrics (lines 21-40) *)

\* info.get(key, default): the default only when the key is absent; a key
\* present with None yields None.
Get(i, key, default) == IF i[key] = Absent THEN default ELSE i[key]

\* pe = info.get('trailingPE'); if pe is None: pe = 0
ExtractPe(i) ==
    LET got == Get(i, "trailingPE", None)
    IN IF got = None THEN PyInt(0) ELSE got

\* margin = info.get('profitMargins', 0) * 100
ExtractMargin(i) == PyMul(Get(i, "profitMargins", PyInt(0)), PyInt(100))

\* fcf = info.get('freeCashflow'); if fcf is None: fcf = info.get('operatingCashflow', 0)
ExtractFcfNoFallback(i) ==
    LET got == Get(i, "freeCashflow", None)
    IN IF got = None THEN PyInt(0) ELSE got
ExtractFcf(i) ==
    LET got == Get(i, "freeCashflow", None)
    IN IF got = None THEN Get(i, "operatingCashflow", PyInt(0)) ELSE got

\* (fcf / base) * 100 if base else 0
PctOf(f, base) == IF Truthy(base) THEN PyMul(PyDiv(f, base), PyInt(100)) ELSE PyInt(0)

\* The locals after lines 22-40, statement by statement: a statement that
\* raises leaves its target and every later one as they were.
ExtractLocals(i) ==
    LET p == Get(i, "currentPrice", PyInt(0))
        e == ExtractPe(i)
        m == ExtractMargin(i)
        c == Get(i, "marketCap", PyInt(1))
        r == Get(i, "totalRevenue", PyInt(1))
        f == ExtractFcf(i)
        fy == PctOf(f, c)
        fm == PctOf(f, r)
        all == [price |-> p, pe |-> e, margin |-> m, mcap |-> c, rev |-> r,
                fcf |-> f, fcf_yield |-> fy, fcf_margin |-> fm, exc |-> "none"]
        old == [price |-> price, pe |-> pe, margin |-> margin, mcap |-> mcap,
                rev |-> rev, fcf |-> fcf, fcf_yield |-> fcf_yield,
                fcf_margin |-> fcf_margin, exc |-> "none"]
    IN IF IsErr(m)
         THEN [old EXCEPT !.price = p, !.pe = e, !.exc = m.k]
       ELSE IF IsErr(fy)
         THEN [all EXCEPT !.fcf_yield = old.fcf_yield,
                          !.fcf_margin = old.fcf_margin, !.exc = fy.k]
       ELSE IF IsErr(fm)
         THEN [all EXCEPT !.fcf_margin = old.fcf_margin, !.exc = fm.k]
       ELSE all

----------------------------------------------------------------------------
(* The scenarios (lines 61-100) *)

Names == <<"Bear", "Base", "Bull">>

\* color_map
ColorOf(name) ==
    CASE name = "Bear" -> "#ff4b4b"
      [] name = "Base" -> "#7d7d7d"
      [] name = "Bull" -> "#09ab3b"

Assume(g, pm, fcfm, t_pe, t_yld) ==
    [g |-> g, pm |-> pm, fcfm |-> fcfm, pe |-> t_pe, yld |-> t_yld]

\* The defaults make_inputs is called with, per scenario; each number_input
\* shows float(default). s is the way margin - 5, margin + 5 and the like
\* fall when they cancel.
Defaults(name, s) ==
    CASE name = "Bear" -> Assume(Num(5), ToFloat(PySub(margin, PyInt(5), s.pm)),
                                 ToFloat(PySub(fcf_margin, PyInt(5), s.fcfm)),
                                 Num(15), Num(6))
      [] name = "Base" -> Assume(Num(10), ToFloat(margin), ToFloat(fcf_margin),
                                 Num(20), Num(4))
      [] name = "Bull" -> Assume(Num(15), ToFloat(PyAdd(margin, PyInt(5), s.pm)),
                                 ToFloat(PyAdd(fcf_margin, PyInt(5), s.fcfm)),
                                 Num(25), Num(3))
Settled == [pm |-> 0, fcfm |-> 0]
DefaultsOf(name) == {Defaults(name, s) : s \in [pm : Signs, fcfm : Signs]}

NoInputs == [s \in {"Bear", "Base", "Bull"} |->
                Assume(Unbound, Unbound, Unbound, Unbound, Unbound)]

LocNames == {"future_rev", "future_earnings", "future_fcf", "target_mcap_eps",
             "target_mcap_fcf", "shares", "price_eps", "price_fcf",
             "avg_price", "cagr_eps", "cagr_fcf", "cagr_avg"}

NoLoc == [v \in LocNames |-> Unbound]

NoFigure == [x |-> <<>>, y |-> <<>>, color |-> <<>>, text |-> <<>>]

\* A list-valued local: bound once a statement has assigned it.
NoList == [bound |-> FALSE, items |-> <<>>]

\* l.append(x)
PyAppend(l, x) == [l EXCEPT !.items = Append(@, x)]

\* Reading the name of a list: NameError while no statement has assigned it.
Lookup(l) == IF l.bound THEN V("text", 0, 1, 1) ELSE Raised("NameError")

\* (target / price) ** (1 / years) - 1
Cagr(target, p, n, s) == PySub(PyRoot(PyDiv(target, p), n), PyInt(1), s)

\* future_rev = rev * ((1 + g/100)**years): the power is evaluated first and
\* is a float, so an int rev is converted to a float for the product.
FutureRevLinear(r, g, n, s) ==
    PyMul(PyMul(r, PyAdd(PyInt(1), PyDiv(g, PyInt(100)), s)), PyInt(n))
TimesFloat(r, f) == IF IsErr(f) THEN f ELSE PyMul(r, f)
FutureRev(r, g, n, s) ==
    TimesFloat(r, PyPowInt(PyAdd(PyInt(1), PyDiv(g, PyInt(100)), s), n))

\* The locals of the loop body in the order lines 106-130 assign them.
Order ==
    <<"future_rev", "future_earnings", "future_fcf", "target_mcap_eps",
      "target_mcap_fcf", "shares", "price_eps", "price_fcf", "avg_price",
      "cagr_eps", "cagr_fcf", "cagr_avg">>

\* if shares == 0: shares = 1
OneIfZero(x) == IF IsZero(x) THEN PyInt(1) ELSE x

\* The value the j-th assignment of lines 106-130 computes for the
\* assumptions a from the locals e assigned before it. s is the way the sum
\* of the statement falls when it cancels: 1 + g/100, price_eps + price_fcf
\* and the - 1 of a return.
Assign(j, e, a, s) ==
    CASE j = 1 -> FutureRev(rev, a.g, years, s)
      [] j = 2 -> PyMul(e.future_rev, PyDiv(a.pm, PyInt(100)))
      [] j = 3 -> PyMul(e.future_rev, PyDiv(a.fcfm, PyInt(100)))
      [] j = 4 -> PyMul(e.future_earnings, a.pe)
      [] j = 5 -> IF Positive(a.yld)
                  THEN PyDiv(e.future_fcf, PyDiv(a.yld, PyInt(100)))
                  ELSE PyInt(0)
      [] j = 6 -> OneIfZero(PyDiv(mcap, price))
      [] j = 7 -> PyDiv(e.target_mcap_eps, e.shares)
      [] j = 8 -> PyDiv(e.target_mcap_fcf, e.shares)
      [] j = 9 -> PyDiv(PyAdd(e.price_eps, e.price_fcf, s), PyInt(2))
      [] j = 10 -> IF Positive(price) THEN Cagr(e.price_eps, price, years, s)
                   ELSE PyInt(0)
      [] j = 11 -> IF Positive(price) THEN Cagr(e.price_fcf, price, years, s)
                   ELSE PyInt(0)
      [] j = 12 -> IF Positive(price) THEN Cagr(e.avg_price, price, years, s)
                   ELSE PyInt(0)

\* The values the locals can have after the assignments from the j-th on. An
\* assignment whose sum does not cancel has one outcome.
RECURSIVE Outcomes(_, _, _)
Outcomes(j, e, a) ==
    IF j > Len(Order) THEN {e}
    ELSE UNION {Outcomes(j + 1, [e EXCEPT ![Order[j]] = v], a) :
                   v \in {Assign(j, e, a, s) : s \in Signs}}

\* One pass of the loop body (lines 103-144) with the values e of its
\* locals, in evaluation order: the assignments, the row's five formatted
\* cells behind the lookup of results, and the lookups of the three chart
\* lists.
Body(e) ==
    [j \in 1..Len(Order) |-> <<Order[j], e[Order[j]]>>]
    \o << <<"results", Lookup(results)>>,
          <<"EPS Target", Fmt2f(e.price_eps)>>,
          <<"EPS CAGR", FmtPct(e.cagr_eps)>>,
          <<"FCF Target", Fmt2f(e.price_fcf)>>,
          <<"FCF CAGR", FmtPct(e.cagr_fcf)>>,
          <<"Avg Target", Fmt2f(e.avg_price)>>,
          <<"chart_scenarios", Lookup(chart_scenarios)>>,
          <<"chart_prices", Lookup(chart_prices)>>,
          <<"chart_colors", Lookup(chart_colors)>> >>

\* The statements of a body that raise, by position.
Raising(b) == {j \in 1..Len(b) : IsErr(b[j][2])}

FirstRaise(b) == CHOOSE j \in Raising(b) : \A h \in Raising(b) : j <= h

\* The statements that ran to completion.
Ran(b) == IF Raising(b) = {} THEN 1..Len(b) ELSE 1..(FirstRaise(b) - 1)

ValueOf(b, key) == b[CHOOSE j \in 1..Len(b) : b[j][1] = key][2]

\* The statement named key ran to completion.
Done(b, key) == \E j \in Ran(b) : b[j][1] = key

\* The locals after the body: those a completed statement assigned.
LocAfter(b) ==
    [v \in LocNames |->
        IF Done(b, v) THEN ValueOf(b, v) ELSE loc[v]]

\* chart_prices.append(avg_price)
ChartValueEps(b) == ValueOf(b, "price_eps")
ChartValue(b) == ValueOf(b, "avg_price")

\* The dictionary results.append receives (lines 133-140).
Row(name, b) ==
    [Scenario |-> name,
     EPSTarget |-> ValueOf(b, "EPS Target"),
     EPSCAGR |-> ValueOf(b, "EPS CAGR"),
     FCFTarget |-> ValueOf(b, "FCF Target"),
     FCFCAGR |-> ValueOf(b, "FCF CAGR"),
     AvgTarget |-> ValueOf(b, "Avg Target")]

----------------------------------------------------------------------------
(* The environment: what the user types and what the provider returns *)

MinYears == 3
MaxYears == 10
Horizons == MinYears..MaxYears

\* What the user may have typed into the ticker box.
Typed == {"", "goog"}

\* str.upper() on the typed text.
Upper(t) == IF t = "goog" THEN "GOOG" ELSE t

Text == V("text", 0, 1, 1)

\* The company name the title shows: info.get('longName', ticker).
NameOf(i, t) ==
    IF i["longName"] = Absent THEN t
    ELSE IF i["longName"] = None THEN "None" ELSE "Alphabet Inc."

\* Every mapping in which each field is absent, None or a number.
AllInfos ==
    [currentPrice : {Absent, None, Num(0), Num(100)},
     trailingPE : {Absent, None, Num(-20)},
     profitMargins : {Absent, None, Flt(1, 5)},
     marketCap : {Absent, None, PyInt(0), PyInt(-5), PyInt(2000)},
     totalRevenue : {Absent, None, PyInt(0), PyInt(1000)},
     freeCashflow : {Absent, None, PyInt(150)},
     operatingCashflow : {Absent, None, PyInt(200)},
     longName : {Absent, Text}]

Nominal ==
    [currentPrice |-> Num(100), trailingPE |-> Num(20),
     profitMargins |-> Flt(1, 5), marketCap |-> PyInt(2000),
     totalRevenue |-> PyInt(1000), freeCashflow |-> PyInt(150),
     operatingCashflow |-> PyInt(200), longName |-> Text]

\* info before line 19 has assigned it.
NoInfo ==
    [currentPrice |-> Unbound, trailingPE |-> Unbound, profitMargins |-> Unbound,
     marketCap |-> Unbound, totalRevenue |-> Unbound, freeCashflow |-> Unbound,
     operatingCashflow |-> Unbound, longName |-> Unbound]

Empty ==
    [currentPrice |-> Absent, trailingPE |-> Absent, profitMargins |-> Absent,
     marketCap |-> Absent, totalRevenue |-> Absent, freeCashflow |-> Absent,
     operatingCashflow |-> Absent, longName |-> Absent]

\* The mappings the projection is explored with.
SomeInfos ==
    {Nominal, Empty,
     [Nominal EXCEPT !.currentPrice = Absent],
     [Nominal EXCEPT !.currentPrice = None],
     [Nominal EXCEPT !.currentPrice = Num(-100)],
     [Nominal EXCEPT !.marketCap = PyInt(0)],
     [Nominal EXCEPT !.marketCap = PyInt(-2000)],
     [Nominal EXCEPT !.totalRevenue = PyInt(0), !.profitMargins = PyInt(0)],
     [Nominal EXCEPT !.marketCap = None],
     [Nominal EXCEPT !.totalRevenue = None],
     [Nominal EXCEPT !.profitMargins = Absent, !.freeCashflow = Absent]}

\* Values the user may have typed over a scenario's defaults.
Edits ==
    {Assume(Num(10), Num(20), Num(15), Num(20), Num(4)),
     Assume(Num(0), Num(20), Num(15), Num(20), Num(0)),
     Assume(Num(-50), Num(20), Num(15), Num(20), Num(-4)),
     Assume(Num(0), Num(-20), Num(15), Num(20), Num(4)),
     Assume(Num(100), Num(20), Num(-15), Num(-20), Num(5)),
     Assume(Num(10), Num(20), Num(-16), Num(20), Num(4))}

\* The diagnostics a failed lookup carries.
FetchErrors == {"ConnectionError", "YFDataException"}

----------------------------------------------------------------------------
(* The script *)

El(kind, arg) == [el |-> kind, arg |-> arg]

Fundamentals ==
    [price |-> price, pe |-> pe, margin |-> margin, mcap |-> mcap, rev |-> rev,
     fcf |-> fcf, fcf_yield |-> fcf_yield, fcf_margin |-> fcf_margin]

Init ==
    /\ pc = "idle"
    /\ ticker = ""
    /\ years = 5
    /\ info = NoInfo
    /\ price = Unbound /\ pe = Unbound /\ margin = Unbound /\ mcap = Unbound
    /\ rev = Unbound /\ fcf = Unbound /\ fcf_yield = Unbound
    /\ fcf_margin = Unbound
    /\ inputs = NoInputs
    /\ pressed = FALSE
    /\ idx = 0
    /\ loc = NoLoc
    /\ results = NoList
    /\ chart_scenarios = NoList /\ chart_prices = NoList
    /\ chart_colors = NoList
    /\ figure = NoFigure
    /\ rendered = <<>>
    /\ exc = "none"
    /\ raisedAt = "none"

\* except Exception as e: st.error(f"Error fetching data: {e}")
Except(e, at) ==
    /\ pc' = "failed"
    /\ exc' = e
    /\ raisedAt' = at
    /\ rendered' = Append(rendered, El("error", e))

\* What the page's main area holds when the lookup starts: lines 7-17 render
\* into the sidebar only.
BeforeFetchTitled(t) == <<El("title", t)>>
BeforeFetch(t) == <<>>

\* Lines 10-15: a script run starts; the page shows what this run renders.
Sidebar(texts, horizons) ==
    /\ pc = "idle"
    /\ \E t \in texts, n \in horizons :
          /\ ticker' = Upper(t)
          /\ years' = n
          /\ pc' = IF Upper(t) # "" THEN "fetch" ELSE "done"
          /\ rendered' = BeforeFetch(Upper(t))
    /\ UNCHANGED <<info, price, pe, margin, mcap, rev, fcf, fcf_yield,
                   fcf_margin, inputs, pressed, idx, loc, results,
                   chart_scenarios, chart_prices, chart_colors, figure, exc,
                   raisedAt>>

\* Lines 18-19: the lookup returns a mapping.
Fetch(infos) ==
    /\ pc = "fetch"
    /\ \E i \in infos : info' = i
    /\ pc' = "extract"
    /\ UNCHANGED <<ticker, years, price, pe, margin, mcap, rev, fcf,
                   fcf_yield, fcf_margin, inputs, pressed, idx, loc,
                   results, chart_scenarios, chart_prices, chart_colors,
                   figure, rendered, exc, raisedAt>>

\* Lines 18-19: the lookup raises.
FetchFail ==
    /\ pc = "fetch"
    /\ \E e \in FetchErrors : Except(e, "fetch")
    /\ UNCHANGED <<ticker, years, info, price, pe, margin, mcap, rev, fcf,
                   fcf_yield, fcf_margin, inputs, pressed, idx, loc,
                   results, chart_scenarios, chart_prices, chart_colors,
                   figure>>

\* Lines 22-40.
Extract ==
    /\ pc = "extract"
    /\ LET x == ExtractLocals(info)
       IN /\ price' = x.price /\ pe' = x.pe /\ margin' = x.margin
          /\ mcap' = x.mcap /\ rev' = x.rev /\ fcf' = x.fcf
          /\ fcf_yield' = x.fcf_yield /\ fcf_margin' = x.fcf_margin
          /\ IF x.exc = "none"
             THEN pc' = "title" /\ UNCHANGED <<rendered, exc, raisedAt>>
             ELSE Except(x.exc, "extract")
    /\ UNCHANGED <<ticker, years, info, inputs, pressed, idx, loc, results,
                   chart_scenarios, chart_prices, chart_colors, figure>>

\* Line 43.
Title ==
    /\ pc = "title"
    /\ rendered' = Append(rendered, El("title", NameOf(info, ticker)))
    /\ pc' = "metrics"
    /\ UNCHANGED <<ticker, years, info, price, pe, margin, mcap, rev, fcf,
                   fcf_yield, fcf_margin, inputs, pressed, idx, loc,
                   results, chart_scenarios, chart_prices, chart_colors,
                   figure, exc, raisedAt>>

\* The five metric labels of lines 47-51, in order.
MetricTexts ==
    <<Fmt2f(price), Fmt2f(pe), Fmt1f(margin), Fmt2f(fcf_yield),
      Fmt1f(fcf_margin)>>

\* Lines 46-53: the metrics are rendered one by one until a format raises.
Metrics ==
    /\ pc = "metrics"
    /\ LET bad == {j \in 1..5 : IsErr(MetricTexts[j])}
           stop == IF bad = {} THEN 6 ELSE CHOOSE j \in bad : \A h \in bad : j <= h
           shown == rendered \o [j \in 1..(stop - 1) |-> El("metric", MetricTexts[j])]
       IN IF bad = {}
          THEN /\ rendered' = Append(shown, El("divider", ""))
               /\ pc' = "inputs"
               /\ UNCHANGED <<exc, raisedAt>>
          ELSE /\ pc' = "failed"
               /\ exc' = MetricTexts[stop].k
               /\ raisedAt' = "metrics"
               /\ rendered' = Append(shown, El("error", MetricTexts[stop].k))
    /\ UNCHANGED <<ticker, years, info, price, pe, margin, mcap, rev, fcf,
                   fcf_yield, fcf_margin, inputs, pressed, idx, loc,
                   results, chart_scenarios, chart_prices, chart_colors,
                   figure>>

\* The defaults that float() converts from the metrics, in call order.
Margins(a) == <<a.pm, a.fcfm>>
Converted ==
    Margins(Defaults("Bear", Settled)) \o Margins(Defaults("Base", Settled))
    \o Margins(Defaults("Bull", Settled))

\* The subheader of line 56, the three boxes and the divider below them.
Boxes ==
    <<El("subheader", "Scenario Assumptions"), El("assumptions", "Bear"),
      El("assumptions", "Base"), El("assumptions", "Bull"), El("divider", "")>>

\* The first of the conversions c that raised.
FirstBad(c) ==
    CHOOSE j \in 1..Len(c) : IsErr(c[j]) /\ \A h \in 1..(j - 1) : ~IsErr(c[h])

\* A conversion raised: the run ends in the handler, the box of the scenario
\* it was converting for being the last one shown.
InputsFail(c, bad) ==
    /\ pc' = "failed"
    /\ exc' = c[bad].k
    /\ raisedAt' = "inputs"
    /\ rendered' = Append(rendered \o SubSeq(Boxes, 1, 1 + (bad + 1) \div 2),
                          El("error", c[bad].k))
    /\ UNCHANGED inputs

\* The inputs return their defaults or what the user typed.
InputsGiven(edits) ==
    /\ \E bear \in edits \cup DefaultsOf("Bear"),
          base \in edits \cup DefaultsOf("Base"),
          bull \in edits \cup DefaultsOf("Bull") :
          inputs' = [s \in {"Bear", "Base", "Bull"} |->
                        CASE s = "Bear" -> bear [] s = "Base" -> base
                          [] s = "Bull" -> bull]
    /\ rendered' = rendered \o Boxes
    /\ pc' = "button"
    /\ UNCHANGED <<exc, raisedAt>>

\* Lines 56-92 with the converted defaults c.
InputsWith(edits, c) ==
    IF \E j \in 1..Len(c) : IsErr(c[j]) THEN InputsFail(c, FirstBad(c))
    ELSE InputsGiven(edits)

\* Lines 56-92: each number_input returns its default or what the user typed.
MakeInputs(edits) ==
    /\ pc = "inputs"
    /\ InputsWith(edits, Converted)
    /\ UNCHANGED <<ticker, years, info, price, pe, margin, mcap, rev, fcf,
                   fcf_yield, fcf_margin, pressed, idx, loc, results,
                   chart_scenarios, chart_prices, chart_colors, figure>>

\* results = [], chart_scenarios = [], chart_prices = [], chart_colors = []
NewList(old) == [bound |-> TRUE, items |-> <<>>]

\* Lines 93-100: the button was pressed in the interaction that started this run.
Press ==
    /\ pc = "button"
    /\ pressed' = TRUE
    /\ results' = NewList(results)
    /\ chart_scenarios' = NewList(chart_scenarios)
    /\ chart_prices' = NewList(chart_prices)
    /\ chart_colors' = NewList(chart_colors)
    /\ idx' = 0
    /\ pc' = "loop"
    /\ UNCHANGED <<ticker, years, info, price, pe, margin, mcap, rev, fcf,
                   fcf_yield, fcf_margin, inputs, loc, figure, rendered,
                   exc, raisedAt>>

\* Line 93: the button was not pressed; the script ends.
NoPress ==
    /\ pc = "button"
    /\ pressed' = FALSE
    /\ pc' = "done"
    /\ UNCHANGED <<ticker, years, info, price, pe, margin, mcap, rev, fcf,
                   fcf_yield, fcf_margin, inputs, idx, loc, results,
                   chart_scenarios, chart_prices, chart_colors, figure,
                   rendered, exc, raisedAt>>

\* What a pass b of the loop body for the scenario name leaves behind. A
\* statement that raises ends the run in the handler; the appends before it
\* have happened.
Pass(name, b) ==
    /\ loc' = LocAfter(b)
    /\ results' = IF Done(b, "Avg Target")
                   THEN PyAppend(results, Row(name, b)) ELSE results
    /\ chart_scenarios' = IF Done(b, "chart_scenarios")
                           THEN PyAppend(chart_scenarios, name)
                           ELSE chart_scenarios
    /\ chart_prices' = IF Done(b, "chart_prices")
                        THEN PyAppend(chart_prices, ChartValue(b))
                        ELSE chart_prices
    /\ chart_colors' = IF Done(b, "chart_colors")
                        THEN PyAppend(chart_colors, ColorOf(name))
                        ELSE chart_colors
    /\ IF Raising(b) = {}
       THEN /\ idx' = idx + 1
            /\ pc' = IF idx + 1 = Len(Names) THEN "display" ELSE "loop"
            /\ UNCHANGED <<rendered, exc, raisedAt>>
       ELSE /\ Except(b[FirstRaise(b)][2].k, "project")
            /\ UNCHANGED idx

\* Lines 102-144: one pass of the loop.
Project ==
    /\ pc = "loop"
    /\ idx < Len(Names)
    /\ \E e \in Outcomes(1, NoLoc, inputs[Names[idx + 1]]) :
          Pass(Names[idx + 1], Body(e))
    /\ UNCHANGED <<ticker, years, info, price, pe, margin, mcap, rev, fcf,
                   fcf_yield, fcf_margin, inputs, pressed, figure>>

\* Lines 147-163: the table, then the figure of the two bar traces.
Display ==
    /\ pc = "display"
    /\ figure' = [x |-> <<"Current">> \o chart_scenarios.items,
                  y |-> <<price>> \o chart_prices.items,
                  color |-> <<"#29b5e8">> \o chart_colors.items,
                  text |-> <<Fmt0f(price)>> \o
                           [j \in 1..Len(chart_prices.items) |->
                               Fmt0f(chart_prices.items[j])]]
    /\ rendered' = rendered \o <<El("table", ""), El("chart", "")>>
    /\ pc' = "done"
    /\ UNCHANGED <<ticker, years, info, price, pe, margin, mcap, rev, fcf,
                   fcf_yield, fcf_margin, inputs, pressed, idx, loc,
                   results, chart_scenarios, chart_prices, chart_colors,
                   exc, raisedAt>>

\* One script run over the projection's inputs.
Next ==
    \/ Sidebar(Typed, Horizons)
    \/ Fetch(SomeInfos)
    \/ FetchFail
    \/ Extract
    \/ Title
    \/ Metrics
    \/ MakeInputs(Edits)
    \/ Press
    \/ NoPress
    \/ Project
    \/ Display

Spec == Init /\ [][Next]_vars

\* One script run over every info mapping, the assumptions left at their
\* defaults and the button not pressed.
NextExtract ==
    \/ Sidebar(Typed, {MinYears})
    \/ Fetch(AllInfos)
    \/ FetchFail
    \/ Extract
    \/ Title
    \/ Metrics
    \/ MakeInputs({})
    \/ NoPress

SpecExtract == Init /\ [][NextExtract]_vars

----------------------------------------------------------------------------
(* Properties *)

\* The extraction has run in this script run.
Extracted == pc = "title" \/ raisedAt = "extract"

\* The loop body has run for some scenario in this script run.
Attempted ==
    pressed /\ ((pc = "failed" /\ raisedAt = "project") \/ (pc # "failed" /\ idx > 0))

\* The scenario the loop body ran for last.
LastName ==
    IF pc = "failed" /\ raisedAt = "project" THEN Names[idx + 1] ELSE Names[idx]

\* Every metric of the extraction is a number.
NumericFundamentals ==
    /\ IsNum(price) /\ IsNum(pe) /\ IsNum(margin) /\ IsNum(mcap) /\ IsNum(rev)
    /\ IsNum(fcf) /\ IsNum(fcf_yield) /\ IsNum(fcf_margin)

\* A field's number, or the default when the field is absent or None.
OrDefault(v, default) == IF IsNum(v) THEN v ELSE default

\* C1: a projection run with price 0 and numeric metrics does not end in the
\* error state, and every scenario it has processed has its three returns
\* (EPS, FCF and average CAGR) equal to 0.
ZeroPriceGivesZeroReturns ==
    (pressed /\ pc \in {"loop", "display", "done", "failed"}
        /\ NumericFundamentals /\ IsZero(price))
    => /\ pc # "failed"
       /\ idx > 0 => /\ IsZero(loc.cagr_eps)
                     /\ IsZero(loc.cagr_fcf)
                     /\ IsZero(loc.cagr_avg)

\* C2: whatever fields the mapping lacks or holds as None, the extraction does
\* not raise and leaves every metric a number: the field's value, or its
\* documented default.
ExtractionIsTotal ==
    Extracted
    => /\ raisedAt # "extract"
       /\ price = OrDefault(info.currentPrice, PyInt(0))
       /\ pe = OrDefault(info.trailingPE, PyInt(0))
       /\ margin = PyMul(OrDefault(info.profitMargins, PyInt(0)), PyInt(100))
       /\ mcap = OrDefault(info.marketCap, PyInt(1))
       /\ rev = OrDefault(info.totalRevenue, PyInt(1))
       /\ fcf = OrDefault(info.freeCashflow,
                          OrDefault(info.operatingCashflow, PyInt(0)))
       /\ IsNum(fcf_yield)
       /\ IsNum(fcf_margin)

\* C3: with numeric metrics and a price above 0, a projection run never ends
\* in the error state whatever numbers the assumptions hold, and a finished
\* one shows three rows and the chart.
ProjectionIsTotal ==
    (pressed /\ pc \in {"loop", "display", "done", "failed"}
        /\ NumericFundamentals /\ Positive(price))
    => /\ pc # "failed"
       /\ pc = "done" => /\ Len(results.items) = 3
                         /\ \E j \in 1..Len(rendered) : rendered[j].el = "chart"

\* The positions of the page that hold an error message.
ErrorsShown == {j \in 1..Len(rendered) : rendered[j].el = "error"}

\* C4: a run whose lookup failed shows one error message carrying the lookup's
\* diagnostic and nothing else; a run that ended in the error state with
\* anything else on the page did not fail in the lookup.
FetchFailureShowsOnlyTheError ==
    /\ raisedAt = "fetch"
         => /\ pc = "failed"
            /\ exc \in FetchErrors
            /\ rendered = <<El("error", exc)>>
    /\ pc = "failed" => Cardinality(ErrorsShown) = 1
    /\ (pc = "failed" /\ Len(rendered) > 1)
         => (raisedAt # "fetch" /\ exc \notin FetchErrors)

\* C4 witness: the lookup has failed.
FetchHasFailed == pc = "failed" /\ raisedAt = "fetch" /\ exc = "ConnectionError"

\* C5: a scenario whose exit FCF yield is zero or negative raises no error and
\* has a cash-flow exit market cap of 0, an FCF target price of 0 and an
\* average target price of half its EPS target price.
NonPositiveYieldZeroesFcf ==
    (Attempted /\ NumericFundamentals /\ ~Positive(inputs[LastName].yld))
    => /\ pc # "failed"
       /\ IsZero(loc.target_mcap_fcf)
       /\ IsZero(loc.price_fcf)
       /\ SameNumber(PyMul(loc.avg_price, PyInt(2)), loc.price_eps)

\* freeCashFlow / base * 100, written out on the fractions.
PctWritten(f, base) == Rat(f.n * base.d * 100, f.d * base.n)

\* C6: the extracted free cash flow is the freeCashflow field when it holds a
\* number; when that field is missing it is the operatingCashflow field, and 0
\* when that is missing too; the FCF yield and the FCF margin are computed from
\* the value so chosen.
FcfFallbackChain ==
    pc = "title"
    => /\ IsNum(info.freeCashflow) => fcf = info.freeCashflow
       /\ (info.freeCashflow \in {Absent, None} /\ IsNum(info.operatingCashflow))
            => fcf = info.operatingCashflow
       /\ (info.freeCashflow \in {Absent, None} /\ info.operatingCashflow = Absent)
            => fcf = PyInt(0)
       /\ (IsNum(fcf) /\ Truthy(mcap))
            => SameNumber(fcf_yield, PctWritten(fcf, mcap))
       /\ (IsNum(fcf) /\ Truthy(rev))
            => SameNumber(fcf_margin, PctWritten(fcf, rev))

\* C6 witness: freeCashflow is missing and the operating cash flow stands in.
FellBackToOperating ==
    /\ pc = "title"
    /\ info.freeCashflow = Absent
    /\ info.operatingCashflow = PyInt(200)
    /\ fcf = PyInt(200)
    /\ mcap = PyInt(2000)
    /\ SameNumber(fcf_yield, Num(10))

\* C7: a scenario with zero revenue growth has a future revenue equal to the
\* current revenue at every horizon, so its future earnings and free cash flow
\* are the revenue times the target margins.
ZeroGrowthIsIdentity ==
    (Attempted /\ IsNum(rev) /\ inputs[LastName].g = Num(0))
    => LET a == inputs[LastName]
       IN /\ SameNumber(loc.future_rev, rev)
          /\ SameNumber(loc.future_earnings,
                        Rat(rev.n * a.pm.n, rev.d * a.pm.d * 100))
          /\ SameNumber(loc.future_fcf,
                        Rat(rev.n * a.fcfm.n, rev.d * a.fcfm.d * 100))

\* C7 witness: zero growth over the longest horizon.
ZeroGrowthOverTenYears ==
    /\ Attempted /\ pc # "failed"
    /\ years = MaxYears
    /\ inputs[LastName].g = Num(0)
    /\ rev = PyInt(1000)
    /\ loc.future_rev = Num(1000)
    /\ SameNumber(loc.future_earnings, Num(200))

\* C8: a finished projection has the three rows Bear, Base, Bull in this order
\* and a chart of Current, Bear, Base, Bull whose values are the price and then
\* each row's average target price, each scenario's bar in its colour; Current
\* is no row of the results.
RowsAndChartAgree ==
    (pc = "done" /\ pressed)
    => /\ Len(results.items) = 3
       /\ \A j \in 1..3 : results.items[j].Scenario = Names[j]
       /\ \A j \in 1..Len(results.items) : results.items[j].Scenario # "Current"
       /\ figure.x = <<"Current", "Bear", "Base", "Bull">>
       /\ Len(figure.y) = 4
       /\ figure.y[1] = price
       /\ \A j \in 1..3 : results.items[j].AvgTarget = Fmt2f(figure.y[j + 1])
       /\ figure.y[4] = loc.avg_price
       /\ figure.color = <<"#29b5e8", "#ff4b4b", "#7d7d7d", "#09ab3b">>

\* C8 witness: a finished projection whose three average targets differ.
FinishedWithThreeTargets ==
    /\ pc = "done" /\ pressed
    /\ Len(figure.y) = 4
    /\ figure.y[2] # figure.y[3] /\ figure.y[3] # figure.y[4]
    /\ figure.y[2] # figure.y[4]
    /\ loc.avg_price # loc.price_eps

\* C10: every row carries the three target prices and the three returns, the
\* average return being the formatted CAGR of the average target price.
RowsCarryAllSixFigures ==
    \A j \in 1..Len(results.items) :
        /\ {"EPSTarget", "EPSCAGR", "FCFTarget", "FCFCAGR", "AvgTarget", "AvgCAGR"}
              \subseteq DOMAIN results.items[j]
        /\ j = Len(results.items)
             => results.items[j].AvgCAGR = FmtPct(loc.cagr_avg)
====
